---- MODULE Spec2Model ----
(***************************************************************************)
(* Model of power-stream.py: the INA3221 driver (register codec, bring-up, *)
(* channel queries) and the SolarPower sampling scheduler built on         *)
(* sched.scheduler (a queue ordered by wake time, priority, insertion).    *)
(*                                                                         *)
(* Time is counted in integer clock ticks of time.monotonic().  Readings   *)
(* are exact rationals <<numerator, denominator>> in lowest terms with a   *)
(* positive denominator (the program computes them in binary floating      *)
(* point; rounding is not modelled).                                       *)
(***************************************************************************)
EXTENDS Integers, Sequences, FiniteSets, TLC

VARIABLES
    \* ---- SolarPower / sched.scheduler ----
    pc,               \* "idle" before start(), "run" inside s.run(), "crashed" after an exception
    now,              \* time.monotonic(), in ticks
    sample_period,    \* self._sample_period, in ticks
    mean_period_cnt,  \* self._mean_period_cnt
    next_sample,      \* self._next_sample (-1: attribute not set before start())
    queue,            \* s._queue in pop order: <<[time, priority, action]>>
    samples,          \* self._samples, the Sample Window
    \* ---- observations of the scheduler run ----
    t0,               \* the clock value start() took (-1 before start())
    nSample,          \* Sample task executions that completed
    nMeanExec,        \* Mean task executions (dispatches of _calc_mean_cb)
    nOut,             \* Mean records printed
    lastRun,          \* the task executed last: [action, time, at]
    meanSeen,         \* len(self._samples) found by the last Mean task (-1: none ran)
    flushed,          \* the window the last printed Mean record was computed from
    out,              \* the last printed Mean record (channel -> field -> rational)
    busError,         \* a bus read has raised inside _sample_cb
    \* ---- INA3221 ----
    hostOrder,        \* byte order of struct's native 'H': "little" or "big"
    dpc,              \* position in INA3221.__init__ / "ready" once constructed
    timeout,          \* the local 'timeout' of the convergence wait
    waitCh,           \* channel index the all(...) generator is at
    polls,            \* config reads of the reset poll that showed RST set
    busTick,          \* parity of the number of bus operations so far
    lastOp,           \* the last bus operation: [op, reg, data]
    rstClearSeen,     \* a config-register read has returned RST clear
    cfgWritten,       \* the operating configuration word has been written
    sleeps,           \* time.sleep(0.001) calls of the convergence wait
    calls,            \* get_voltage/get_current calls made on the constructed driver
    lastCall          \* the last such call: [fn, ch, kind, result, value, reads, signed]

schedVars == <<pc, now, sample_period, mean_period_cnt, next_sample, queue, samples,
               t0, nSample, nMeanExec, nOut, lastRun, meanSeen, flushed, out, busError>>
drvVars == <<hostOrder, dpc, timeout, waitCh, polls, busTick, lastOp, rstClearSeen, cfgWritten,
             sleeps, calls, lastCall>>
vars == <<schedVars, drvVars>>

(***************************************************************************)
(* Bounds of the model.                                                    *)
(***************************************************************************)
MaxTime == 5          \* the clock stops advancing here
MaxLatency == 2       \* ticks a callback or an oversleeping delay may take
MaxPeriod == 2        \* sample periods tried: 1..MaxPeriod ticks
MaxMeanCnt == 2       \* window sizes tried: 1..MaxMeanCnt
MaxResetPolls == 2    \* config reads that may still show RST set
MaxCalls == 2         \* driver calls made after construction
MaxChannelMargin == 1 \* callers pass channels -MaxChannelMargin .. 2 + MaxChannelMargin

(***************************************************************************)
(* Exact rationals.                                                        *)
(***************************************************************************)
Abs(x) == IF x < 0 THEN -x ELSE x

RECURSIVE Gcd(_, _)
Gcd(a, b) == IF b = 0 THEN a ELSE Gcd(b, a % b)

\* lowest terms with a positive denominator of the pair p
Reduced(p) ==
    LET s == IF p[2] < 0 THEN -1 ELSE 1
        g == Gcd(Abs(p[1]), Abs(p[2]))
    IN  <<(s * p[1]) \div g, (s * p[2]) \div g>>

\* n/d in normal form (n and d are evaluated once)
Rat(n, d) == CHOOSE r \in {Reduced(p) : p \in {<<n, d>>}} : TRUE

RatAdd(a, b) == Rat(a[1] * b[2] + b[1] * a[2], a[2] * b[2])
RatMul(a, b) == Rat(a[1] * b[1], a[2] * b[2])
RatDiv(a, b) == Rat(a[1] * b[2], a[2] * b[1])
RatInt(n) == <<n, 1>>
RatIsZero(a) == a[1] = 0

(***************************************************************************)
(* INA3221 register map and configuration bits.                            *)
(***************************************************************************)
INA3221_REG_CONFIG == 0
INA3221_REG_SHUNTVOLTAGE_1 == 1
INA3221_REG_BUSVOLTAGE_1 == 2
INA3221_REG_SHUNTVOLTAGE_SUM == 13

INA3221_CONFIG_RST == 2^15
INA3221_CONFIG_CH1_EN == 2^14
INA3221_CONFIG_CH2_EN == 2^13
INA3221_CONFIG_CH3_EN == 2^12
INA3221_CONFIG_AVG2 == 2^11
INA3221_CONFIG_AVG1 == 2^10
INA3221_CONFIG_AVG0 == 2^9
INA3221_CONFIG_VBUS_CT2 == 2^8
INA3221_CONFIG_VBUS_CT1 == 2^7
INA3221_CONFIG_VBUS_CT0 == 2^6
INA3221_CONFIG_VSH_CT2 == 2^5
INA3221_CONFIG_VSH_CT1 == 2^4
INA3221_CONFIG_VSH_CT0 == 2^3
INA3221_CONFIG_MODE_2 == 2^2
INA3221_CONFIG_MODE_1 == 2^1
INA3221_CONFIG_MODE_0 == 2^0

\* x & bit, for a single-bit mask
BitSet(x, bit) == (x \div bit) % 2 = 1

\* SHUNT_RESISTOR_DEFAULT = 0.1
SHUNT_RESISTOR_DEFAULT == <<1, 10>>

Kinds == {"bus", "shunt"}

\* _VOLTAGE_LUT[reg_type]['reg_base']
RegBase(kind) ==
    IF kind = "bus" THEN INA3221_REG_BUSVOLTAGE_1 ELSE INA3221_REG_SHUNTVOLTAGE_1

\* a conversion table whose shunt entry lacks the division by 2
ConvertShuntNotHalved(kind, x) ==
    IF kind = "bus"
    THEN RatDiv(RatInt(x), RatInt(1000))
    ELSE RatDiv(RatDiv(RatInt(x), RatInt(1000)), RatInt(10))

\* _VOLTAGE_LUT[reg_type]['convert']
Convert(kind, x) ==
    IF kind = "bus"
    THEN RatDiv(RatInt(x), RatInt(1000))
    ELSE RatDiv(RatDiv(RatDiv(RatInt(x), RatInt(1000)), RatInt(2)), RatInt(10))

(***************************************************************************)
(* Register codec: _read_register and _write_register, byte by byte.       *)
(***************************************************************************)
ToBytesBig(w) == <<w \div 256, w % 256>>
FromBytesBig(b) == b[1] * 256 + b[2]
UnpackH(b, order) == IF order = "little" THEN b[1] + 256 * b[2] ELSE b[1] * 256 + b[2]
\* struct.pack('<H', v) whatever the host: the byte order pinned to little-endian
PackHLittleOnly(v, order) == <<v % 256, v \div 256>>
PackH(v, order) == IF order = "little" THEN <<v % 256, v \div 256>> ELSE <<v \div 256, v % 256>>

\* what _read_register returns for the word read_word_data returned
DecodeRegister(word, order) == UnpackH(ToBytesBig(word), order)
\* the word _write_register hands to write_word_data
EncodeRegister(data, order) == FromBytesBig(PackH(data, order))

(***************************************************************************)
(* get_voltage and get_current as functions of the register value read.    *)
(***************************************************************************)
\* a guard that rejects only channels above 2
ValidChannelNoLowerBound(ch) == ~(ch > 2)

\* the guard of get_voltage: not (ch < 0 or ch > 2)
ValidChannel(ch) == ~(ch < 0 \/ ch > 2)

\* registers of one kind laid out back to back
VoltageRegPacked(ch, kind) == RegBase(kind) + ch
\* reg = lut['reg_base'] + ch * 2
VoltageReg(ch, kind) == RegBase(kind) + ch * 2

\* value = (value - 65536) if value > 32767 else value
\* the same reconstruction with the threshold off by one (value >= 32767)
ToSignedFrom32767(value) == IF value >= 32767 THEN value - 65536 ELSE value
ToSigned(value) == IF value > 32767 THEN value - 65536 ELSE value

\* get_voltage(ch, reg_type), word being what read_word_data returns if it is
\* asked: the outcome, the registers read on the way, and the value returned
GetVoltage(ch, kind, word, order) ==
    IF ~ValidChannel(ch)
    THEN [result |-> "ValueError", reads |-> <<>>, signed |-> 0, value |-> RatInt(0)]
    ELSE [result |-> "ok",
          reads |-> <<VoltageReg(ch, kind)>>,
          signed |-> ToSigned(DecodeRegister(word, order)),
          value |-> Convert(kind, ToSigned(DecodeRegister(word, order)))]

\* get_current(ch)
GetCurrent(ch, word, order, shunt_resistor) ==
    LET v == GetVoltage(ch, "shunt", word, order)
    IN  IF v.result # "ok" THEN v
        ELSE [v EXCEPT !.value = RatMul(RatDiv(v.value, shunt_resistor), RatInt(100))]

(***************************************************************************)
(* The device as the bus shows it: the words read_word_data returns for    *)
(* the six bus/shunt voltage registers.                                    *)
(***************************************************************************)
Channels == 0 .. 2
VoltageRegs == {VoltageReg(ch, kind) : ch \in Channels, kind \in Kinds}
Orders == {"little", "big"}

Words == <<12000, 1000, 0, 63536>>
Snapshot(i) == [r \in VoltageRegs |-> Words[((r + i) % Len(Words)) + 1]]
Snapshots == {Snapshot(0), Snapshot(1)}

(***************************************************************************)
(* SolarPower: channel table, _read_channel, _get_ch_means.                *)
(***************************************************************************)
ChannelNames == {"solar", "battery", "output"}
Fields == {"v_load", "current"}

\* _CH_LUT
CH_LUT ==
    [n \in ChannelNames |->
        IF n = "solar" THEN [ch |-> 0, gain |-> -1]
        ELSE IF n = "battery" THEN [ch |-> 1, gain |-> -1]
        ELSE [ch |-> 2, gain |-> 1]]

\* _read_channel(ch_dict) against the device snapshot dev
ReadChannel(ch_dict, dev, order) ==
    LET ch == ch_dict.ch
        gain == ch_dict.gain
        v == GetVoltage(ch, "bus", dev[VoltageReg(ch, "bus")], order)
        c == GetCurrent(ch, dev[VoltageReg(ch, "shunt")], order, SHUNT_RESISTOR_DEFAULT)
    IN  [v_load |-> v.value,
         current |-> RatMul(RatDiv(c.value, RatInt(1000)), RatInt(gain))]

\* the dictionary _sample_cb builds (without '@machine_id' and '@time')
RawSample(dev, order) == [n \in ChannelNames |-> ReadChannel(CH_LUT[n], dev, order)]

\* sum(field_gen(f)), Python's sum starting from 0
RECURSIVE SumField(_, _, _)
SumField(w, name, f) ==
    IF w = <<>> THEN RatInt(0)
    ELSE RatAdd(SumField(SubSeq(w, 1, Len(w) - 1), name, f), w[Len(w)][name][f])

\* cnt = len(self._samples)
MeanCount(w) == Len(w)

\* _get_ch_means(name)
GetChMeans(w, name) ==
    [f \in Fields |-> RatDiv(SumField(w, name, f), RatInt(MeanCount(w)))]

\* the record _calc_mean_cb prints (without '@machine_id' and '@time')
MeanRecord(w) == [n \in ChannelNames |-> GetChMeans(w, n)]

\* a clear that carries the newest sample over into the next window
KeepNewest(w) == IF w = <<>> THEN <<>> ELSE <<w[Len(w)]>>

\* self._samples.clear()
ClearedWindow(w) == <<>>

(***************************************************************************)
(* sched.scheduler: events ordered by (time, priority, insertion order).   *)
(***************************************************************************)
SAMPLE_PRIORITY == 1
\* the Mean task enqueued behind the Sample task of the same instant
MeanPriorityBehindSample == SAMPLE_PRIORITY + 1
MEAN_PRIORITY == 0

Event(time, priority, action) == [time |-> time, priority |-> priority, action |-> action]

Before(a, b) == a.time < b.time \/ (a.time = b.time /\ a.priority <= b.priority)

\* heappush of a new event: after every pending event that is not later than it
RECURSIVE Enqueue(_, _)
Enqueue(q, ev) ==
    IF q = <<>> THEN <<ev>>
    ELSE IF Before(Head(q), ev) THEN <<Head(q)>> \o Enqueue(Tail(q), ev)
    ELSE <<ev>> \o q

\* rescheduling relative to the clock ("now + period")
NextSampleFromClock(next, period, clock) == clock + period

\* self._next_sample += self._sample_period
NextSampleTime(next, period, clock) == next + period

\* len(self._samples) >= self._mean_period_cnt
WindowFull(w, cnt) == Len(w) >= cnt

NoOp == [op |-> "none", reg |-> 0, data |-> 0, word |-> 0]
NoCall == [fn |-> "none", ch |-> 0, kind |-> "bus", result |-> "none", value |-> RatInt(0),
           reads |-> <<>>, signed |-> 0]
NoRun == [action |-> "none", time |-> -1, at |-> -1]
NoRecord == [n \in ChannelNames |-> [f \in Fields |-> RatInt(0)]]

\* a _sample_cb that reschedules itself only while the window is not full
SampleCbRescheduleUnlessFull(next, clock, q, dev) ==
    LET nxt == next + sample_period
        w == Append(samples, RawSample(dev, hostOrder))
    IN  /\ next_sample' = nxt
        /\ samples' = w
        /\ queue' = IF Len(w) >= mean_period_cnt
                    THEN Enqueue(q, Event(clock, MEAN_PRIORITY, "mean"))
                    ELSE Enqueue(q, Event(nxt, SAMPLE_PRIORITY, "sample"))
        /\ nSample' = nSample + 1

\* The body of _sample_cb with the bus working: next is the value of
\* self._next_sample on entry, clock the value of time.monotonic() when
\* s.enter(0, ...) reads it, q the queue on entry.
SampleCb(next, clock, q, dev) ==
    LET nxt == NextSampleTime(next, sample_period, clock)
        q1 == Enqueue(q, Event(nxt, SAMPLE_PRIORITY, "sample"))
        w == Append(samples, RawSample(dev, hostOrder))
    IN  /\ next_sample' = nxt
        /\ samples' = w
        /\ queue' = IF WindowFull(w, mean_period_cnt)
                    THEN Enqueue(q1, Event(clock, MEAN_PRIORITY, "mean"))
                    ELSE q1
        /\ nSample' = nSample + 1

\* a handler that swallows the bus error and reschedules the Sample task
SampleFailedRetry(next, q) ==
    /\ pc' = "run"
    /\ next_sample' = next + sample_period
    /\ queue' = Enqueue(q, Event(next + sample_period, SAMPLE_PRIORITY, "sample"))
    /\ UNCHANGED <<samples, nSample>>

\* _sample_cb when a bus read raises: the reads of line 128 come before any
\* assignment, the exception is caught nowhere and ends the process
SampleFailed(next, q) ==
    /\ pc' = "crashed"
    /\ next_sample' = next
    /\ queue' = q
    /\ UNCHANGED <<samples, nSample>>

Elapsed == {d \in 0 .. MaxLatency : now + d <= MaxTime}

\* start(): anchor _next_sample at the clock and call _sample_cb directly
Start ==
    /\ pc = "idle"
    /\ t0' = now
    /\ \E d \in Elapsed :
        /\ now' = now + d
        /\ \/ \E dev \in Snapshots :
                /\ SampleCb(now, now + d, queue, dev)
                /\ pc' = "run"
                /\ UNCHANGED busError
           \/ \* a bus read raises: the exception leaves start()
              /\ busError' = TRUE
              /\ SampleFailed(now, queue)
    /\ UNCHANGED <<sample_period, mean_period_cnt, nMeanExec, nOut, lastRun, meanSeen,
                   flushed, out, drvVars>>

\* s.run(): the head event is not due, delayfunc(time - now)
Delay ==
    /\ pc = "run"
    /\ queue # <<>>
    /\ Head(queue).time > now
    /\ \E t \in Head(queue).time .. Head(queue).time + MaxLatency :
        /\ t <= MaxTime
        /\ now' = t
    /\ UNCHANGED <<pc, sample_period, mean_period_cnt, next_sample, queue, samples, t0,
                   nSample, nMeanExec, nOut, lastRun, meanSeen, flushed, out, busError,
                   drvVars>>

\* s.run(): the head event is due and is a Sample task
RunSample ==
    /\ pc = "run"
    /\ queue # <<>>
    /\ Head(queue).time <= now
    /\ Head(queue).action = "sample"
    /\ lastRun' = [action |-> "sample", time |-> Head(queue).time, at |-> now]
    /\ \E d \in Elapsed :
        /\ now' = now + d
        /\ \/ \E dev \in Snapshots :
                /\ SampleCb(next_sample, now + d, Tail(queue), dev)
                /\ pc' = "run"
                /\ UNCHANGED busError
           \/ \* a bus read raises: the exception leaves s.run()
              /\ busError' = TRUE
              /\ SampleFailed(next_sample, Tail(queue))
    /\ UNCHANGED <<sample_period, mean_period_cnt, t0, nMeanExec, nOut, meanSeen,
                   flushed, out, drvVars>>

\* s.run(): the head event is due and is a Mean task (_calc_mean_cb)
RunMean ==
    /\ pc = "run"
    /\ queue # <<>>
    /\ Head(queue).time <= now
    /\ Head(queue).action = "mean"
    /\ lastRun' = [action |-> "mean", time |-> Head(queue).time, at |-> now]
    /\ queue' = Tail(queue)
    /\ nMeanExec' = nMeanExec + 1
    /\ meanSeen' = Len(samples)
    /\ \E d \in Elapsed : now' = now + d
    /\ IF samples = <<>>
       THEN \* self._samples[0] raises IndexError: the exception leaves s.run()
            /\ pc' = "crashed"
            /\ UNCHANGED <<samples, nOut, flushed, out>>
       ELSE /\ out' = MeanRecord(samples)
            /\ flushed' = samples
            /\ nOut' = nOut + 1
            /\ samples' = ClearedWindow(samples)
            /\ pc' = "run"
    /\ UNCHANGED <<sample_period, mean_period_cnt, next_sample, t0, nSample, busError,
                   drvVars>>

\* the state after SolarPower(s, period, mean_period_cnt) on a constructed driver
Init ==
    /\ pc = "idle"
    /\ now \in 0 .. 1
    /\ sample_period \in 1 .. MaxPeriod
    /\ mean_period_cnt \in 1 .. MaxMeanCnt
    /\ next_sample = -1
    /\ queue = <<>>
    /\ samples = <<>>
    /\ t0 = -1
    /\ nSample = 0
    /\ nMeanExec = 0
    /\ nOut = 0
    /\ lastRun = NoRun
    /\ meanSeen = -1
    /\ flushed = <<>>
    /\ out = NoRecord
    /\ busError = FALSE
    /\ hostOrder \in Orders
    /\ dpc = "ready"
    /\ timeout = 0
    /\ waitCh = 0
    /\ polls = 0
    /\ busTick = 0
    /\ lastOp = NoOp
    /\ rstClearSeen = TRUE
    /\ cfgWritten = TRUE
    /\ sleeps = 0
    /\ calls = 0
    /\ lastCall = NoCall

Next == Start \/ Delay \/ RunSample \/ RunMean

Spec == Init /\ [][Next]_vars

(***************************************************************************)
(* INA3221.__init__ step by step (one step per bus operation), followed by *)
(* calls of get_voltage / get_current on the constructed driver.           *)
(***************************************************************************)
\* timeout = 10
STARTUP_TIMEOUT == 10

\* the operating configuration with every conversion-time bit set
OperatingConfigAllCT ==
    INA3221_CONFIG_CH1_EN + INA3221_CONFIG_CH2_EN + INA3221_CONFIG_CH3_EN
    + INA3221_CONFIG_AVG2 + INA3221_CONFIG_AVG1 + INA3221_CONFIG_AVG0
    + INA3221_CONFIG_VBUS_CT2 + INA3221_CONFIG_VBUS_CT1 + INA3221_CONFIG_VBUS_CT0
    + INA3221_CONFIG_VSH_CT2 + INA3221_CONFIG_VSH_CT1 + INA3221_CONFIG_VSH_CT0
    + INA3221_CONFIG_MODE_2 + INA3221_CONFIG_MODE_1 + INA3221_CONFIG_MODE_0

\* config = CH1_EN | CH2_EN | ... | MODE_0 (distinct bits: the OR is the sum)
OperatingConfig ==
    INA3221_CONFIG_CH1_EN + INA3221_CONFIG_CH2_EN + INA3221_CONFIG_CH3_EN
    + INA3221_CONFIG_AVG2 + INA3221_CONFIG_AVG1 + INA3221_CONFIG_AVG0
    + INA3221_CONFIG_VBUS_CT2 + INA3221_CONFIG_VBUS_CT1 + INA3221_CONFIG_VBUS_CT0
    + INA3221_CONFIG_VSH_CT2
    + INA3221_CONFIG_MODE_2 + INA3221_CONFIG_MODE_1 + INA3221_CONFIG_MODE_0

\* a reset poll that never waits
ResetPollNeverWaits(value) == FALSE

\* the condition of the reset poll: read & INA3221_CONFIG_RST
ResetPending(value) == BitSet(value, INA3221_CONFIG_RST)

\* words the device may answer a config-register read with
ConfigWords == {0, 2^7, 2^15, 2^15 + 2^7}
\* words the device may answer a voltage-register read with
VoltageWords == {Words[i] : i \in DOMAIN Words}

\* channels a caller may pass
CallChannels == (0 - MaxChannelMargin) .. (2 + MaxChannelMargin)
\* words the device answers those calls with
CallWords == {Words[1], Words[3]}

WriteOp(reg, data) ==
    [op |-> "write", reg |-> reg, data |-> data, word |-> EncodeRegister(data, hostOrder)]
ReadOp(reg, word) ==
    [op |-> "read", reg |-> reg, data |-> DecodeRegister(word, hostOrder), word |-> word]

\* self._write_register(self.INA3221_REG_CONFIG, self.INA3221_CONFIG_RST)
ResetWrite ==
    /\ dpc = "new"
    /\ lastOp' = WriteOp(INA3221_REG_CONFIG, INA3221_CONFIG_RST)
    /\ busTick' = 1 - busTick
    /\ dpc' = "poll"
    /\ UNCHANGED <<hostOrder, timeout, waitCh, polls, rstClearSeen, cfgWritten, sleeps, calls,
                   lastCall, schedVars>>

\* one evaluation of: while self._read_register(CONFIG) & RST: time.sleep(0)
PollReset ==
    /\ dpc = "poll"
    /\ \E word \in ConfigWords :
        LET op == ReadOp(INA3221_REG_CONFIG, word)
        IN  /\ BitSet(op.data, INA3221_CONFIG_RST) => polls < MaxResetPolls
            /\ lastOp' = op
            /\ polls' = IF BitSet(op.data, INA3221_CONFIG_RST) THEN polls + 1 ELSE polls
            /\ rstClearSeen' = (rstClearSeen \/ ~BitSet(op.data, INA3221_CONFIG_RST))
            /\ dpc' = IF ResetPending(op.data) THEN "poll" ELSE "config"
    /\ busTick' = 1 - busTick
    /\ UNCHANGED <<hostOrder, timeout, waitCh, cfgWritten, sleeps, calls, lastCall,
                   schedVars>>

\* self._write_register(self.INA3221_REG_CONFIG, config); timeout = 10
ConfigWrite ==
    /\ dpc = "config"
    /\ lastOp' = WriteOp(INA3221_REG_CONFIG, OperatingConfig)
    /\ busTick' = 1 - busTick
    /\ cfgWritten' = TRUE
    /\ timeout' = STARTUP_TIMEOUT
    /\ waitCh' = 0
    /\ dpc' = "wait_bus"
    /\ UNCHANGED <<hostOrder, polls, rstClearSeen, sleeps, calls, lastCall, schedVars>>

\* the same loop with the bound tested as timeout >= 0
RoundFailedOneMore ==
    IF timeout >= 0
    THEN /\ sleeps' = sleeps + 1
         /\ timeout' = timeout - 1
         /\ waitCh' = 0
         /\ dpc' = "wait_bus"
    ELSE /\ dpc' = "ready"
         /\ UNCHANGED <<sleeps, timeout, waitCh>>

\* all(...) came out False: "and timeout > 0", then sleep and count down, or leave
RoundFailed ==
    IF timeout > 0
    THEN /\ sleeps' = sleeps + 1
         /\ timeout' = timeout - 1
         /\ waitCh' = 0
         /\ dpc' = "wait_bus"
    ELSE /\ dpc' = "ready"
         /\ UNCHANGED <<sleeps, timeout, waitCh>>

\* the convergence wait evaluates self.get_voltage(i)
WaitBus ==
    /\ dpc = "wait_bus"
    /\ \E word \in VoltageWords :
        LET r == GetVoltage(waitCh, "bus", word, hostOrder)
        IN  /\ lastOp' = ReadOp(r.reads[1], word)
            /\ IF RatIsZero(r.value)
               THEN RoundFailed
               ELSE /\ dpc' = "wait_shunt"
                    /\ UNCHANGED <<sleeps, timeout, waitCh>>
    /\ busTick' = 1 - busTick
    /\ UNCHANGED <<hostOrder, polls, rstClearSeen, cfgWritten, calls, lastCall, schedVars>>

\* the convergence wait evaluates self.get_current(i)
WaitShunt ==
    /\ dpc = "wait_shunt"
    /\ \E word \in VoltageWords :
        LET r == GetCurrent(waitCh, word, hostOrder, SHUNT_RESISTOR_DEFAULT)
        IN  /\ lastOp' = ReadOp(r.reads[1], word)
            /\ IF RatIsZero(r.value)
               THEN RoundFailed
               ELSE IF waitCh < 2
               THEN /\ waitCh' = waitCh + 1
                    /\ dpc' = "wait_bus"
                    /\ UNCHANGED <<sleeps, timeout>>
               ELSE \* all(...) is True: the loop ends
                    /\ dpc' = "ready"
                    /\ UNCHANGED <<sleeps, timeout, waitCh>>
    /\ busTick' = 1 - busTick
    /\ UNCHANGED <<hostOrder, polls, rstClearSeen, cfgWritten, calls, lastCall, schedVars>>

\* what __init__ hands to its caller when the wait ends with `left`
\* iterations remaining and the last all(...) equal to `converged`: it
\* returns normally, nothing is printed or logged, and of the wait nothing is
\* kept (timeout is a local; only _bus, _addr and _shunt_resistor are set)
InitOutcome(left, converged) ==
    [raised |-> FALSE, output |-> <<>>, shunt_resistor |-> SHUNT_RESISTOR_DEFAULT]

\* the effect of one driver call with outcome r on the bus and the call record
CallDone(fn, ch, kind, r, word) ==
    /\ lastCall' = [fn |-> fn, ch |-> ch, kind |-> kind, result |-> r.result,
                    value |-> r.value, reads |-> r.reads, signed |-> r.signed]
    /\ busTick' = (busTick + Len(r.reads)) % 2
    /\ lastOp' = IF r.reads = <<>> THEN lastOp ELSE ReadOp(r.reads[1], word)
    /\ calls' = calls + 1
    /\ UNCHANGED <<hostOrder, dpc, timeout, waitCh, polls, rstClearSeen, cfgWritten,
                   sleeps, schedVars>>

\* a caller invokes get_voltage(ch, reg_type)
CallGetVoltage ==
    /\ dpc = "ready"
    /\ calls < MaxCalls
    /\ \E ch \in CallChannels, kind \in Kinds, word \in CallWords :
        CallDone("get_voltage", ch, kind, GetVoltage(ch, kind, word, hostOrder), word)

\* a caller invokes get_current(ch)
CallGetCurrent ==
    /\ dpc = "ready"
    /\ calls < MaxCalls
    /\ \E ch \in CallChannels, word \in CallWords :
        CallDone("get_current", ch, "shunt",
                 GetCurrent(ch, word, hostOrder, SHUNT_RESISTOR_DEFAULT), word)

\* INA3221(): _bus, _addr and _shunt_resistor are set, no bus operation yet
InitDrv ==
    /\ pc = "idle"
    /\ now = 0
    /\ sample_period = 1
    /\ mean_period_cnt = 1
    /\ next_sample = -1
    /\ queue = <<>>
    /\ samples = <<>>
    /\ t0 = -1
    /\ nSample = 0
    /\ nMeanExec = 0
    /\ nOut = 0
    /\ lastRun = NoRun
    /\ meanSeen = -1
    /\ flushed = <<>>
    /\ out = NoRecord
    /\ busError = FALSE
    /\ hostOrder \in Orders
    /\ dpc = "new"
    /\ timeout = 0
    /\ waitCh = 0
    /\ polls = 0
    /\ busTick = 0
    /\ lastOp = NoOp
    /\ rstClearSeen = FALSE
    /\ cfgWritten = FALSE
    /\ sleeps = 0
    /\ calls = 0
    /\ lastCall = NoCall

NextDrv ==
    \/ ResetWrite
    \/ PollReset
    \/ ConfigWrite
    \/ WaitBus
    \/ WaitShunt
    \/ CallGetVoltage
    \/ CallGetCurrent

SpecDrv == InitDrv /\ [][NextDrv]_vars

\* __init__ is straight-line code on one thread: its next statement is
\* executed whenever there is one (smbus calls and time.sleep return)
InitStep ==
    \/ ResetWrite
    \/ PollReset
    \/ ConfigWrite
    \/ WaitBus
    \/ WaitShunt

SpecDrvFair == InitDrv /\ [][NextDrv]_vars /\ WF_vars(InitStep)

(***************************************************************************)
(* A constructed driver exercised one operation at a time over the whole   *)
(* 16-bit range: a register written and read back, get_voltage and         *)
(* get_current on any register content, _read_channel on a device.         *)
(***************************************************************************)
\* the values of a 16-bit register ('H')
RegisterValues == 0 .. (2^16 - 1)

\* a device whose bus registers decode to 12000 and shunt registers to 1000
FixedDevice(order) ==
    [r \in VoltageRegs |->
        IF r \in {VoltageReg(ch, "bus") : ch \in Channels}
        THEN EncodeRegister(12000, order)
        ELSE EncodeRegister(1000, order)]

\* devices _read_channel is tried on
ProbeDevices == Snapshots \cup {FixedDevice(hostOrder)}

\* shunt register contents get_current is tried on
ProbeWords == CallWords \cup {EncodeRegister(1000, hostOrder), EncodeRegister(12000, hostOrder)}

Untouched == dpc = "ready" /\ calls = 0 /\ lastOp = NoOp

\* self._write_register(reg, v)
RegWrite ==
    /\ Untouched
    /\ \E v \in RegisterValues : lastOp' = WriteOp(INA3221_REG_CONFIG, v)
    /\ busTick' = 1 - busTick
    /\ UNCHANGED <<hostOrder, dpc, timeout, waitCh, polls, rstClearSeen, cfgWritten, sleeps,
                   calls, lastCall, schedVars>>

\* self._read_register(reg) of the register just written: the device hands
\* back the word it was sent
RegReadBack ==
    /\ dpc = "ready"
    /\ calls = 0
    /\ lastOp.op = "write"
    /\ lastOp' = ReadOp(lastOp.reg, lastOp.word)
    /\ busTick' = 1 - busTick
    /\ UNCHANGED <<hostOrder, dpc, timeout, waitCh, polls, rstClearSeen, cfgWritten, sleeps,
                   calls, lastCall, schedVars>>

\* get_voltage(ch, reg_type) with the register holding any word
ProbeGetVoltage ==
    /\ Untouched
    /\ \E ch \in Channels, kind \in Kinds, word \in RegisterValues :
        CallDone("get_voltage", ch, kind, GetVoltage(ch, kind, word, hostOrder), word)

\* get_current(ch) with the shunt register holding any word
ProbeGetCurrent ==
    /\ Untouched
    /\ \E ch \in Channels, word \in ProbeWords :
        CallDone("get_current", ch, "shunt",
                 GetCurrent(ch, word, hostOrder, SHUNT_RESISTOR_DEFAULT), word)

\* _read_channel(_CH_LUT[n]): get_voltage(ch, 'bus'), then get_current(ch)
ProbeReadChannel ==
    /\ Untouched
    /\ \E n \in ChannelNames, dev \in ProbeDevices :
        LET ch == CH_LUT[n].ch
            shuntReg == VoltageReg(ch, "shunt")
        IN  /\ lastCall' = [fn |-> "_read_channel", ch |-> ch, kind |-> "bus",
                            result |-> "ok",
                            value |-> ReadChannel(CH_LUT[n], dev, hostOrder),
                            reads |-> <<VoltageReg(ch, "bus"), shuntReg>>,
                            signed |-> ToSigned(DecodeRegister(dev[shuntReg], hostOrder)),
                            dev |-> dev]
            /\ lastOp' = ReadOp(shuntReg, dev[shuntReg])
    /\ calls' = calls + 1
    /\ UNCHANGED <<hostOrder, dpc, timeout, waitCh, polls, busTick, rstClearSeen, cfgWritten,
                   sleeps, schedVars>>

\* a constructed INA3221 inside a SolarPower that has not been started
InitReg ==
    /\ pc = "idle"
    /\ now = 0
    /\ sample_period = 1
    /\ mean_period_cnt = 1
    /\ next_sample = -1
    /\ queue = <<>>
    /\ samples = <<>>
    /\ t0 = -1
    /\ nSample = 0
    /\ nMeanExec = 0
    /\ nOut = 0
    /\ lastRun = NoRun
    /\ meanSeen = -1
    /\ flushed = <<>>
    /\ out = NoRecord
    /\ busError = FALSE
    /\ hostOrder \in Orders
    /\ dpc = "ready"
    /\ timeout = 0
    /\ waitCh = 0
    /\ polls = 0
    /\ busTick = 0
    /\ lastOp = NoOp
    /\ rstClearSeen = TRUE
    /\ cfgWritten = TRUE
    /\ sleeps = 0
    /\ calls = 0
    /\ lastCall = NoCall

NextReg ==
    \/ RegWrite
    \/ RegReadBack
    \/ ProbeGetVoltage
    \/ ProbeGetCurrent
    \/ ProbeReadChannel

SpecReg == InitReg /\ [][NextReg]_vars

(***************************************************************************)
(* Properties of the sampling scheduler (specification Spec).              *)
(***************************************************************************)
PendingAt(action, time) ==
    \E i \in DOMAIN queue : queue[i].action = action /\ queue[i].time = time

\* C1: whenever a pending Mean task and a pending Sample task have the same
\* wake instant, the Mean task is executed first: no Sample task is ever
\* dispatched while a Mean task with the same wake instant is pending.
C1_MeanFirstOnTie ==
    [][(lastRun' # lastRun /\ lastRun'.action = "sample")
         => ~PendingAt("mean", lastRun'.time)]_vars

\* C1 witness: a Mean task was dispatched while a Sample task with the same
\* wake instant was pending (and still is).
C1_Witness ==
    /\ lastRun.action = "mean"
    /\ PendingAt("sample", lastRun.time)

\* C2: every execution of the Mean task finds at least mean_period_cnt
\* samples in the Sample Window (never a partial or an empty window), for
\* any dispatch latency.
C2_MeanFindsFullWindow == nMeanExec > 0 => meanSeen >= mean_period_cnt

\* C3: the i-th Mean record is emitted after the (i*mean_period_cnt)-th
\* Sample execution and before the (i*mean_period_cnt + 1)-th, for any
\* dispatch latency.
C3_OneMeanPerFullWindow ==
    /\ nOut * mean_period_cnt <= nSample
    /\ nSample <= (nOut + 1) * mean_period_cnt

\* C4: the Sample task enqueued by the k-th Sample execution has wake time
\* t0 + k * sample_period, whatever the clock was when Sample tasks ran.
C4_DriftFree ==
    \A i \in DOMAIN queue :
        queue[i].action = "sample" => queue[i].time = t0 + nSample * sample_period

\* C4 witness: a Sample task dispatched late (after its wake time) has run as
\* the second or a later execution and its successor is pending.
C4_Witness ==
    /\ nSample >= 2
    /\ lastRun.action = "sample"
    /\ lastRun.at > lastRun.time
    /\ now > lastRun.at
    /\ PendingAt("sample", t0 + nSample * sample_period)

\* C5: the Sample Window is empty immediately after every Mean task
\* execution, and the first Sample task completed after a Mean task leaves
\* the window with exactly one entry.
C5_FreshWindowAfterMean ==
    [][/\ nMeanExec' # nMeanExec => samples' = <<>>
       /\ (lastRun.action = "mean" /\ nSample' # nSample) => Len(samples') = 1]_vars

\* C5 witness: with a window of at least two samples, a record has been
\* printed and the Sample task that ran next has left one entry.
C5_Witness ==
    /\ mean_period_cnt >= 2
    /\ nOut >= 1
    /\ lastRun.action = "sample"
    /\ Len(samples) = 1
    /\ pc = "run"

\* total of one field of one channel over a window, front to back
RECURSIVE FieldTotal(_, _, _)
FieldTotal(w, name, f) ==
    IF w = <<>> THEN <<0, 1>>
    ELSE LET h == w[1][name][f]
             r == FieldTotal(Tail(w), name, f)
         IN  Rat(h[1] * r[2] + r[1] * h[2], h[2] * r[2])

\* C6: every value of the emitted Mean record equals the sum of that field
\* over the window divided by the number of samples, and that number is
\* exactly mean_period_cnt.
C6_ExactMeanOverCnt ==
    nOut > 0 =>
        /\ Len(flushed) = mean_period_cnt
        /\ \A n \in ChannelNames, f \in Fields :
              LET t == FieldTotal(flushed, n, f)
              IN  out[n][f] = Rat(t[1], t[2] * Len(flushed))

\* C7: the Sample Window never holds more than mean_period_cnt samples, for
\* any dispatch latency.
C7_WindowBounded == Len(samples) <= mean_period_cnt

\* C16: a bus failure during a Sample task is not retried and stops the
\* service: the failing task appends nothing, enqueues neither a Sample nor
\* a Mean task, emits no record, and no Sample or Mean task executes after it.
C16_BusFailureStops ==
    [][/\ (busError' /\ ~busError) =>
            /\ pc' = "crashed"
            /\ queue' = (IF pc = "idle" THEN queue ELSE Tail(queue))
            /\ UNCHANGED <<samples, nSample, nMeanExec, nOut, out>>
       /\ busError =>
            UNCHANGED <<samples, queue, nSample, nMeanExec, nOut, out, lastRun>>]_vars

\* C16 witness: a dispatched Sample task hit a bus failure after earlier
\* Sample tasks had completed.
C16_Witness ==
    /\ busError
    /\ pc = "crashed"
    /\ lastRun.action = "sample"
    /\ nSample >= 1

Pending(action) == {i \in DOMAIN queue : queue[i].action = action}

C19_AtMostOneMeanPending ==
    /\ Cardinality(Pending("mean")) <= 1
    /\ nMeanExec > 0 => meanSeen > 0

(***************************************************************************)
(* Properties of the driver (specification SpecDrv).                       *)
(***************************************************************************)
\* C8: get_voltage and get_current fail with the invalid-channel error for
\* every channel outside {0,1,2}, with no bus read or write before failing,
\* and succeed for exactly the channels 0, 1 and 2.
C8_InvalidChannelRejected ==
    [][calls' # calls =>
         /\ (lastCall'.result = "ok") <=> (lastCall'.ch \in {0, 1, 2})
         /\ lastCall'.ch \notin {0, 1, 2} =>
               /\ lastCall'.result = "ValueError"
               /\ lastCall'.reads = <<>>
               /\ UNCHANGED <<lastOp, busTick>>]_vars

\* C8 witness: get_current was called with a negative channel and failed.
C8_Witness ==
    /\ lastCall.fn = "get_current"
    /\ lastCall.ch < 0
    /\ lastCall.result = "ValueError"

\* C9: the first bus operation of initialization is the write of the reset
\* bit to the config register; the operating configuration word is written
\* only after a config-register read has returned the reset bit clear; no
\* bus-voltage or shunt-voltage register is read before that word is written.
C9_BringUpOrder ==
    [][busTick' # busTick =>
         /\ lastOp = NoOp =>
               /\ lastOp'.op = "write"
               /\ lastOp'.reg = INA3221_REG_CONFIG
               /\ lastOp'.data = INA3221_CONFIG_RST
         /\ (lastOp # NoOp /\ lastOp'.op = "write") => rstClearSeen
         /\ (lastOp'.op = "read" /\ lastOp'.reg \in VoltageRegs) => cfgWritten]_vars

\* C9 witness: the reset poll saw RST set at least once, the configuration
\* was written, and a voltage register has then been read.
C9_Witness ==
    /\ polls >= 1
    /\ cfgWritten
    /\ lastOp.op = "read"
    /\ lastOp.reg \in VoltageRegs

EnableBits == {INA3221_CONFIG_CH1_EN, INA3221_CONFIG_CH2_EN, INA3221_CONFIG_CH3_EN}
AveragingBits == {INA3221_CONFIG_AVG2, INA3221_CONFIG_AVG1, INA3221_CONFIG_AVG0}
BusCTBits == {INA3221_CONFIG_VBUS_CT2, INA3221_CONFIG_VBUS_CT1, INA3221_CONFIG_VBUS_CT0}
ShuntCTBits == {INA3221_CONFIG_VSH_CT2, INA3221_CONFIG_VSH_CT1, INA3221_CONFIG_VSH_CT0}
ModeBits == {INA3221_CONFIG_MODE_2, INA3221_CONFIG_MODE_1, INA3221_CONFIG_MODE_0}

\* the configuration word has just been written
ConfigJustWritten == cfgWritten /\ lastOp.op = "write"

\* C10 as stated: the operating configuration word has the reset bit clear
\* and all enable, averaging, bus and shunt conversion-time and mode bits set.
C10_AllBitsSet ==
    ConfigJustWritten =>
        /\ ~BitSet(lastOp.data, INA3221_CONFIG_RST)
        /\ \A b \in EnableBits \cup AveragingBits \cup BusCTBits \cup ShuntCTBits \cup ModeBits :
              BitSet(lastOp.data, b)

\* C10 amended: the operating configuration word has the reset bit clear,
\* all enable, averaging, bus conversion-time and mode bits set, and of the
\* shunt conversion-time bits only VSH_CT2 set (VSH_CT1 and VSH_CT0 clear).
C10_ShuntCT2Only ==
    ConfigJustWritten =>
        /\ ~BitSet(lastOp.data, INA3221_CONFIG_RST)
        /\ \A b \in EnableBits \cup AveragingBits \cup BusCTBits \cup ModeBits :
              BitSet(lastOp.data, b)
        /\ BitSet(lastOp.data, INA3221_CONFIG_VSH_CT2)
        /\ ~BitSet(lastOp.data, INA3221_CONFIG_VSH_CT1)
        /\ ~BitSet(lastOp.data, INA3221_CONFIG_VSH_CT0)

\* C10 witness: the configuration word has been written and the convergence
\* wait is about to start.
C10_Witness == ConfigJustWritten /\ dpc = "wait_bus" /\ polls >= 1

\* __init__ has returned and nothing was called yet
Constructed == dpc = "ready" /\ calls = 0

\* the convergence wait gave up: its last reading was zero
Unconverged == Constructed /\ lastOp.op = "read" /\ lastOp.data = 0

\* C14: when the convergence wait runs out with a reading still zero,
\* __init__ completes without failing and what it hands to its caller differs
\* from what every converged startup hands over.
C14_UnconvergedSurfaced ==
    Unconverged =>
        /\ ~InitOutcome(timeout, FALSE).raised
        /\ \A left \in 0 .. STARTUP_TIMEOUT :
            InitOutcome(timeout, FALSE) # InitOutcome(left, TRUE)

\* the last reading of a round (current of channel 2) comes out non-zero
RoundAllNonZero ==
    /\ dpc = "wait_shunt"
    /\ waitCh = 2
    /\ lastOp'.op = "read"
    /\ lastOp'.data # 0

\* C15: whenever the config register ends up reading back with the reset bit
\* clear, __init__ returns; the wait ends in the very round that finds every
\* reading non-zero, without another sleep, and otherwise after exactly 10
\* sleeps, never more.
C15_InitTerminates ==
    /\ <>(dpc = "ready")
    /\ [](sleeps <= STARTUP_TIMEOUT)
    /\ [](Unconverged => (sleeps = 10 /\ timeout = 0))
    /\ [][RoundAllNonZero => (dpc' = "ready" /\ sleeps' = sleeps)]_vars
    /\ [][(dpc # "ready" /\ dpc' = "ready") =>
            (RoundAllNonZero \/ (lastOp'.data = 0 /\ sleeps' = 10))]_vars

C15_Witness ==
    /\ Unconverged
    /\ sleeps = 10
    /\ polls = MaxResetPolls
    /\ rstClearSeen

\* get_voltage or get_current returns a value in this step
VoltageCallStep ==
    /\ calls' = calls + 1
    /\ lastCall'.fn \in {"get_voltage", "get_current"}
    /\ lastCall'.result = "ok"

\* C17: get_voltage(ch, kind), alone or inside get_current, does one bus
\* operation, a read of register 0x02 + 2*ch (bus) or 0x01 + 2*ch (shunt);
\* this register belongs to no other (kind, ch) and is neither the config
\* register 0x00 nor the shunt-sum register 0x0d.
C17_RegisterAddressing ==
    [][VoltageCallStep =>
        /\ lastCall'.ch \in Channels
        /\ lastCall'.reads =
              <<(IF lastCall'.kind = "bus" THEN 2 ELSE 1) + 2 * lastCall'.ch>>
        /\ busTick' = 1 - busTick
        /\ lastOp'.op = "read"
        /\ lastOp'.reg = lastCall'.reads[1]
        /\ lastOp'.reg \notin {INA3221_REG_CONFIG, INA3221_REG_SHUNTVOLTAGE_SUM}
        /\ \A c \in Channels, k \in Kinds :
              VoltageReg(c, k) = lastOp'.reg => (c = lastCall'.ch /\ k = lastCall'.kind)]_vars

C17_Witness ==
    /\ calls = MaxCalls
    /\ lastCall.fn = "get_current"
    /\ lastCall.ch = 2
    /\ lastCall.reads = <<5>>
    /\ lastOp = ReadOp(5, lastOp.word)

(***************************************************************************)
(* Properties of single driver operations (specification SpecReg).         *)
(***************************************************************************)
\* the device of the last _read_channel decodes every bus register to
\* 12000 and every shunt register to 1000
FixedDeviceRead ==
    /\ lastCall.fn = "_read_channel"
    /\ \A ch \in Channels :
        /\ DecodeRegister(lastCall.dev[VoltageReg(ch, "bus")], hostOrder) = 12000
        /\ DecodeRegister(lastCall.dev[VoltageReg(ch, "shunt")], hostOrder) = 1000

GotCurrentOf1000 ==
    /\ lastCall.fn = "get_current"
    /\ lastCall.ch = 0
    /\ lastOp.data = 1000

GotBusOf12000 ==
    /\ lastCall.fn = "get_voltage"
    /\ lastCall.ch = 0
    /\ lastCall.kind = "bus"
    /\ lastOp.data = 12000

\* C11 as stated: with shunt registers decoding to 1000 and bus registers to
\* 12000, shunt_resistor 0.1 and gain -1 on channel 0, get_current(0) is 5.0,
\* the channel current of the raw sample is -0.005 and get_voltage(0, 'bus')
\* is 12.0.
C11_ScenarioAsStated ==
    /\ GotCurrentOf1000 => lastCall.value = Rat(5, 1)
    /\ GotBusOf12000 => lastCall.value = Rat(12, 1)
    /\ (FixedDeviceRead /\ lastCall.ch = 0) =>
        /\ lastCall.value.current = Rat(-5, 1000)
        /\ lastCall.value.v_load = Rat(12, 1)

\* C11 as the code computes it: in the same scenario get_current(0) is 50.0
\* (1000/1000/2/10/0.1*100), the channel current of the raw sample is -0.05
\* and get_voltage(0, 'bus') is 12.0.
C11_ScenarioValues ==
    /\ GotCurrentOf1000 => lastCall.value = Rat(50, 1)
    /\ GotBusOf12000 => lastCall.value = Rat(12, 1)
    /\ (FixedDeviceRead /\ lastCall.ch = 0) =>
        /\ lastCall.value.current = Rat(-5, 100)
        /\ lastCall.value.v_load = Rat(12, 1)

C11_Witness ==
    /\ FixedDeviceRead
    /\ lastCall.ch = 0
    /\ CH_LUT["solar"].gain = -1
    /\ lastCall.reads = <<INA3221_REG_BUSVOLTAGE_1, INA3221_REG_SHUNTVOLTAGE_1>>

\* the register written by the previous step is read back in this step
ReadBackStep ==
    /\ lastOp.op = "write"
    /\ lastOp'.op = "read"
    /\ lastOp'.reg = lastOp.reg
    /\ lastOp'.word = lastOp.word

\* C12: for every 16-bit value v, on a little-endian and on a big-endian
\* host, _read_register applied to the word _write_register produced for v
\* returns v.
C12_CodecRoundTrip ==
    [][ReadBackStep => lastOp'.data = lastOp.data]_vars

C12_Witness ==
    /\ dpc = "ready"
    /\ calls = 0
    /\ lastOp.op = "read"
    /\ lastOp.reg = INA3221_REG_CONFIG
    /\ lastOp.data = 2^16 - 1 - 2^8
    /\ lastOp.word # lastOp.data
    /\ hostOrder = "little"

\* the last operation is a get_voltage (alone or inside get_current) that
\* read its register
VoltageRead ==
    /\ lastCall.fn \in {"get_voltage", "get_current"}
    /\ lastCall.result = "ok"
    /\ lastOp.op = "read"

\* C13: for every decoded register value u in 0 .. 65535, get_voltage hands
\* to the conversion u - 65536 when u > 32767 and u otherwise, a value of
\* -32768 .. 32767 congruent to u modulo 65536.
C13_SignedReconstruction ==
    VoltageRead =>
        /\ lastOp.data \in RegisterValues
        /\ lastCall.signed = (IF lastOp.data > 32767 THEN lastOp.data - 65536 ELSE lastOp.data)
        /\ lastCall.signed \in (0 - 32768) .. 32767
        /\ (lastCall.signed - lastOp.data) % 65536 = 0
        /\ lastCall.fn = "get_voltage" =>
            lastCall.value = Convert(lastCall.kind, lastCall.signed)

C13_Witness ==
    /\ VoltageRead
    /\ lastCall.fn = "get_voltage"
    /\ lastOp.data = 32768
    /\ lastCall.signed = 0 - 32768
    /\ lastCall.value = Rat(0 - 32768, 1000)

====
